---- MODULE Spec2Model ----
(***************************************************************************)
(* A model of nmtpytorch's Translator (nmtpytorch/translator.py) and of    *)
(* the data iterator of MultiLabelMulti30kDataset                          *)
(* (nmtpytorch/datasets/multilabelmulti30k.py).                            *)
(*                                                                         *)
(* One behaviour is one run: the construction of a Translator followed by  *)
(* one call of the object.  Python strings are TLC strings; a value that   *)
(* may be None is a tagged record (None, Str(s), List(l), Dict(f)).        *)
(***************************************************************************)
EXTENDS Integers, Sequences, FiniteSets, TLC

VARIABLES
    pc,              \* position of the run in __init__ / __call__
    status,          \* process exit status, -1 while running
    error,           \* the exception or exit that ended the run, "none" otherwise
    n_models,        \* self.n_models = len(self.models)
    ckpts,           \* what load_pt_file returned so far, one entry per checkpoint read
    instances,       \* self.instances
    n_load_state,    \* number of instance.load_state_dict calls made
    n_checks,        \* number of sanity_check calls made
    check_result,    \* outcome of sanity_check: "none" before it ran
    disable_filters, \* self.disable_filters
    filter,          \* self.filter: "unset", "identity" or "chain"
    splits,          \* self.splits: None, a string, then a list of split names
    source,          \* self.source: None or a string of key:path pairs
    k,               \* index of __call__'s loop over self.splits
    beam_size,       \* self.beam_size
    lp_alpha,        \* self.lp_alpha, in units of 1/AlphaDenom
    output,          \* self.output
    dataset,         \* the dataset of the split being translated
    loader_args,     \* the flags translate passed to get_iterator
    loader,          \* the DataLoader get_iterator returned
    order,           \* the order in which the loader yielded the examples
    raw_hyps,        \* what beam_search returned
    hyps,            \* what translate returned
    n_beam_search,   \* number of beam_search calls made
    fs,              \* the file system: path -> content
    out_file,        \* path of the last file dump wrote
    dump_split,      \* split argument of the last dump
    last_dump,       \* path -> hypothesis list of the last dump made to it
    n_dumps          \* number of dump calls made

vars == <<pc, status, error, n_models, ckpts, instances, n_load_state, n_checks,
          check_result, disable_filters, filter, splits, source, k, beam_size,
          lp_alpha, output, dataset, loader_args, loader, order, raw_hyps, hyps,
          n_beam_search, fs, out_file, dump_split, last_dump, n_dumps>>

-----------------------------------------------------------------------------
(* Bounds of the model *)

\* largest number of checkpoints given in self.models
MaxModels == 2

\* largest number of examples in a split
MaxExamples == 2

-----------------------------------------------------------------------------
(* Python values *)

None == [t |-> "None"]
Str(s) == [t |-> "str", v |-> s]
List(l) == [t |-> "list", v |-> l]
Dict(f) == [t |-> "dict", v |-> f]

\* Python truth value of None, a string or a list
Truthy(x) ==
    CASE x.t = "None" -> FALSE
      [] x.t = "str"  -> x.v # ""
      [] x.t = "list" -> x.v # <<>>
      [] OTHER        -> TRUE

\* s[i] of a string
Ch(s, i) == SubSeq(s, i, i)

\* str.split(sep) for a one-character separator
RECURSIVE SplitFrom(_, _, _, _)
SplitFrom(s, sep, i, cur) ==
    IF i > Len(s) THEN <<cur>>
    ELSE IF Ch(s, i) = sep THEN <<cur>> \o SplitFrom(s, sep, i + 1, "")
    ELSE SplitFrom(s, sep, i + 1, cur \o Ch(s, i))

StrSplit(s, sep) == SplitFrom(s, sep, 1, "")

\* index of the first occurrence of sep in s at or after i, 0 when there is none
RECURSIVE Find(_, _, _)
Find(s, sep, i) ==
    IF i > Len(s) THEN 0
    ELSE IF Ch(s, i) = sep THEN i
    ELSE Find(s, sep, i + 1)

\* str.split(sep, 1)
StrSplit1(s, sep) ==
    LET p == Find(s, sep, 1)
    IN  IF p = 0 THEN <<s>>
        ELSE <<SubSeq(s, 1, p - 1), SubSeq(s, p + 1, Len(s))>>

Range(f) == {f[x] : x \in DOMAIN f}

-----------------------------------------------------------------------------
(* Inputs *)

\* target-vocabulary sizes a checkpoint's model may report
Vocabs == {3, 5}

\* eval_filters values a checkpoint's training options may declare
FilterConfigs == {"", "lower,de-bpe", "de-bpe,lower"}

\* what load_pt_file yields for a checkpoint, as far as the Translator reads it
Checkpoints ==
    [supports_beam_search : BOOLEAN, weights_match : BOOLEAN,
     n_trg_vocab : Vocabs, eval_filters : FilterConfigs]

\* values of the splits and source arguments: neither given, an empty splits
\* string, a source mapping (well-formed or without its key), named splits,
\* and both at once
CallArgs ==
    {<<None, None>>, <<Str(""), None>>,
     <<None, Str("image:imgs")>>, <<None, Str("imgs")>>,
     <<Str("test"), None>>, <<Str("test,val"), None>>, <<Str("test,test"), None>>,
     <<Str("test"), Str("image:imgs")>>}

\* beam width and length-penalty coefficient (in units of 1/AlphaDenom)
DecodeArgs == {<<4, 0>>, <<4, 1>>, <<5, 8>>, <<5, 24>>, <<5, 32>>}

\* lp_alpha is a binary float: the model holds it as a multiple of 1/32
AlphaDenom == 32

\* content of a file left by an earlier run
OldContent == "old1\nold2\nold3\n"

\* hypotheses beam_search may produce for one example
HypStrings == {"A@@ b", ""}

\* the keys a split's data dictionary may provide
DataDicts == {{"image"}, {"image", "lb"}, {"image", "en"}}

-----------------------------------------------------------------------------
(* nmtpytorch/datasets/multilabelmulti30k.py *)

\* the model's topology: source keys with the type of their data source
TopologySrcs == [image |-> "ImageFolder", en |-> "Text"]

\* the model's topology: target keys
TopologyTrgs == {"lb"}

\* MultiParallelDataset.sources: the keys of src_datasets
Sources(ds) == ds.src_datasets

\* MultiParallelDataset.data_sources: the keys of src_datasets and trg_datasets
DataSources(ds) == ds.src_datasets \cup ds.trg_datasets

\* MultiLabelMulti30kDataset.__init__ on a data dictionary with keys data_dict
\* and n examples.  Sources and targets without data leave the topology; only
\* ImageFolder sources get a dataset, so building src_datasets raises KeyError
\* for a source of another type.
MultiLabelMulti30kDataset(data_dict, n) ==
    LET srcs == {s \in DOMAIN TopologySrcs : s \in data_dict}
        data_srcs == {s \in srcs : TopologySrcs[s] = "ImageFolder"}
        trgs == {g \in TopologyTrgs : g \in data_dict}
    IN  IF srcs \subseteq data_srcs
        THEN [ok |-> TRUE, src_datasets |-> srcs, trg_datasets |-> trgs, len |-> n]
        ELSE [ok |-> FALSE, src_datasets |-> {}, trg_datasets |-> {}, len |-> 0]

NoDataset == [ok |-> FALSE, src_datasets |-> {}, trg_datasets |-> {}, len |-> 0]

\* a mutant of get_iterator: shuffles exactly when inference is set
get_iterator_shuffled(ds, drop_targets, inference) ==
    [keys |-> IF drop_targets THEN Sources(ds) ELSE DataSources(ds),
     shuffle |-> inference]

\* MultiLabelMulti30kDataset.get_iterator: the DataLoader's collate keys and
\* its shuffle flag
get_iterator(ds, drop_targets, inference) ==
    [keys |-> IF drop_targets THEN Sources(ds) ELSE DataSources(ds),
     shuffle |-> ~inference]

NoLoader == [keys |-> {}, shuffle |-> FALSE]

\* the one-to-one maps of 1..n onto itself
Orderings(n) ==
    {p \in [1..n -> 1..n] : \A i, j \in 1..n : p[i] = p[j] => i = j}

\* the orders in which a DataLoader may yield n examples
DataLoaderOrders(ld, n) ==
    IF ld.shuffle THEN Orderings(n) ELSE {[i \in 1..n |-> i]}

-----------------------------------------------------------------------------
(* nmtpytorch/utils/filterchain.py and nmtpytorch/search.py *)

LowerCh(c) == CASE c = "A" -> "a" [] c = "B" -> "b" [] OTHER -> c

\* str.lower
RECURSIVE Lower(_)
Lower(s) == IF s = "" THEN "" ELSE LowerCh(Ch(s, 1)) \o Lower(SubSeq(s, 2, Len(s)))

\* removal of the BPE continuation marker "@@ "
RECURSIVE DeBpe(_)
DeBpe(s) ==
    IF Len(s) < 3 THEN s
    ELSE IF SubSeq(s, 1, 3) = "@@ " THEN DeBpe(SubSeq(s, 4, Len(s)))
    ELSE Ch(s, 1) \o DeBpe(SubSeq(s, 2, Len(s)))

ApplyFilter(name, s) ==
    CASE name = "lower"  -> Lower(s)
      [] name = "de-bpe" -> DeBpe(s)
      [] OTHER           -> s

RECURSIVE ApplyFilters(_, _)
ApplyFilters(names, s) ==
    IF names = <<>> THEN s
    ELSE ApplyFilters(Tail(names), ApplyFilter(Head(names), s))

\* FilterChain(filters)(hyps): every filter, in declared order, on every hypothesis
FilterChain(filters, hs) ==
    [i \in 1..Len(hs) |-> ApplyFilters(StrSplit(filters, ","), hs[i])]

\* beam_search: one hypothesis per example, in the order the loader yields them;
\* h[e] is the hypothesis decoded for example e of the dataset
beam_search(h, ord) == [j \in 1..Len(ord) |-> h[ord[j]]]

-----------------------------------------------------------------------------
(* nmtpytorch/translator.py *)

\* an instance made from checkpoint number idx, set up, loaded, moved to the
\* GPU and switched to evaluation mode
NewInstance(c, idx) ==
    [ckpt |-> idx,
     supports_beam_search |-> c.supports_beam_search,
     n_trg_vocab |-> c.n_trg_vocab,
     eval_filters |-> c.eval_filters,
     weights |-> idx,
     device |-> "cuda",
     training |-> FALSE,
     new_set |-> None,
     datasets |-> {}]

\* a mutant of load_outcome: no capability test
load_outcome_unchecked(c) ==
    IF ~c.weights_match THEN "raise" ELSE "append"

\* one iteration of __init__'s loop over self.models: exit when the model does
\* not support beam search, raise when load_state_dict(strict=True) rejects the
\* weights, append the instance otherwise
load_outcome(c) ==
    IF ~c.supports_beam_search THEN "exit"
    ELSE IF ~c.weights_match THEN "raise"
    ELSE "append"

\* a mutant of sanity_check: no vocabulary assertion
sanity_check_filters_only(insts) ==
    LET eval_filters == {insts[i].eval_filters : i \in DOMAIN insts}
    IN  IF ~(Cardinality(eval_filters) < 2) THEN "filters" ELSE "ok"

\* a mutant of sanity_check: filter configurations compared as sets of names
sanity_check_unordered(insts) ==
    LET eval_filters == {Range(StrSplit(insts[i].eval_filters, ",")) : i \in DOMAIN insts}
        n_trg_vocab == {insts[i].n_trg_vocab : i \in DOMAIN insts}
    IN  IF ~(Cardinality(eval_filters) < 2) THEN "filters"
        ELSE IF ~(Cardinality(n_trg_vocab) = 1) THEN "vocab"
        ELSE "ok"

\* Translator.sanity_check: which assertion fails, "ok" when none does
sanity_check(insts) ==
    LET eval_filters == {insts[i].eval_filters : i \in DOMAIN insts}
        n_trg_vocab == {insts[i].n_trg_vocab : i \in DOMAIN insts}
    IN  IF ~(Cardinality(eval_filters) < 2) THEN "filters"
        ELSE IF ~(Cardinality(n_trg_vocab) = 1) THEN "vocab"
        ELSE "ok"

\* a mutant of identity_filter: the identity only when both conditions hold
identity_filter_both(disable, eval_filters) ==
    disable /\ eval_filters = ""

\* __init__: the condition under which self.filter is the identity
identity_filter(disable, eval_filters) ==
    disable \/ eval_filters = ""

\* self.filter(hs)
Filter(f, hs) == IF f.t = "chain" THEN FilterChain(f.v, hs) ELSE hs

\* __init__: the source argument parsed into a dict, or ValueError when a
\* pair has no ':'
ParseSource(s) ==
    LET pairs == StrSplit(s, ",")
        kv(i) == StrSplit1(pairs[i], ":")
        good == \A i \in 1..Len(pairs) : Len(kv(i)) = 2
        keys == {kv(i)[1] : i \in 1..Len(pairs)}
        last(key) == CHOOSE i \in 1..Len(pairs) :
                        /\ kv(i)[1] = key
                        /\ \A j \in 1..Len(pairs) : kv(j)[1] = key => j <= i
    IN  IF good THEN Dict([key \in keys |-> kv(last(key))[2]])
        ELSE [t |-> "ValueError"]

\* a mutant of load_data: every member loads the split
load_data_all(insts, split) ==
    [i \in DOMAIN insts |-> [insts[i] EXCEPT !.datasets = @ \cup {split}]]

\* translate: self.instances[0].load_data(split) puts the split's dataset into
\* the first member's datasets
load_data(insts, split) ==
    [insts EXCEPT ![1].datasets = @ \cup {split}]

\* get_iterator's default flags: what is in loader_args before any request
DefaultArgs == [drop_targets |-> FALSE, inference |-> FALSE]

\* translate: the flags it passes to get_iterator
IteratorArgs == [drop_targets |-> TRUE, inference |-> TRUE]

\* '{:.1f}'.format(q / AlphaDenom) for q >= 0: the exact value rounded to
\* tenths, halves to the even digit
Format1f(q) ==
    LET n == 10 * q
        t0 == n \div AlphaDenom
        r == n % AlphaDenom
        t == IF 2 * r > AlphaDenom THEN t0 + 1
             ELSE IF 2 * r = AlphaDenom THEN t0 + (t0 % 2)
             ELSE t0
    IN  ToString(t \div 10) \o "." \o ToString(t % 10)

\* a mutant of Suffix: the ensemble part before the length-penalty part
SuffixSwapped(alpha, n, beam) ==
    (IF n > 1 THEN ".ens" \o ToString(n) ELSE "")
    \o (IF alpha > 0 THEN ".lp_" \o Format1f(alpha) ELSE "")
    \o ".beam" \o ToString(beam)

\* dump: the suffix built from lp_alpha, n_models and beam_size
Suffix(alpha, n, beam) ==
    LET s1 == IF alpha > 0 THEN ".lp_" \o Format1f(alpha) ELSE ""
        s2 == IF n > 1 THEN s1 \o ".ens" \o ToString(n) ELSE s1
    IN  s2 \o ".beam" \o ToString(beam)

\* dump: the name of the output file
OutputName(out, split, suffix) ==
    IF split = "new" THEN out \o suffix
    ELSE out \o "." \o split \o suffix

\* for line in hs: line + '\n', concatenated
RECURSIVE Lines(_)
Lines(hs) == IF hs = <<>> THEN "" ELSE Head(hs) \o "\n" \o Lines(Tail(hs))

\* a mutant of WriteFile: the file opened for appending
WriteFileAppend(old, hs) == old \o Lines(hs)

\* dump: open(output, 'w') truncates the file, then every line is written
WriteFile(old, hs) == Lines(hs)

\* for input_ in self.splits: the items iterated (an empty string has none)
SplitItems == IF splits.t = "list" THEN splits.v ELSE <<>>

-----------------------------------------------------------------------------
(* The run *)

\* the process ends with status st because of err
Ends(place, err, st) ==
    /\ pc' = place
    /\ error' = err
    /\ status' = st

\* __init__ up to its loop: the arguments are stored, n_models is the length
\* of self.models and self.instances is empty.  The output directory holds a
\* file from an earlier run under the name of the "test" split.
Init ==
    /\ pc = "load"
    /\ status = -1
    /\ error = "none"
    /\ n_models \in 0..MaxModels
    /\ ckpts = <<>>
    /\ instances = <<>>
    /\ n_load_state = 0
    /\ n_checks = 0
    /\ check_result = "none"
    /\ disable_filters \in BOOLEAN
    /\ filter = [t |-> "unset"]
    /\ \E a \in CallArgs : splits = a[1] /\ source = a[2]
    /\ k = 0
    /\ \E d \in DecodeArgs : beam_size = d[1] /\ lp_alpha = d[2]
    /\ output = "out"
    /\ dataset = NoDataset
    /\ loader_args = DefaultArgs
    /\ loader = NoLoader
    /\ order = <<>>
    /\ raw_hyps = <<>>
    /\ hyps = <<>>
    /\ n_beam_search = 0
    /\ fs = [p \in {OutputName(output, "test", Suffix(lp_alpha, n_models, beam_size))}
                |-> OldContent]
    /\ out_file = ""
    /\ dump_split = ""
    /\ last_dump = <<>>
    /\ n_dumps = 0

\* __init__, one iteration of the loop over self.models
LoadModel ==
    /\ pc = "load"
    /\ Len(ckpts) < n_models
    /\ \E c \in Checkpoints :
         LET what == load_outcome(c)
         IN  /\ ckpts' = Append(ckpts, c)
             /\ IF what = "exit"
                THEN /\ Ends("exit", "CapabilityError", 1)
                     /\ UNCHANGED <<instances, n_load_state>>
                ELSE IF what = "raise"
                THEN /\ Ends("raised", "WeightLoadError", 1)
                     /\ n_load_state' = n_load_state + 1
                     /\ UNCHANGED instances
                ELSE /\ instances' = Append(instances, NewInstance(c, Len(ckpts')))
                     /\ n_load_state' = n_load_state + 1
                     /\ UNCHANGED <<pc, error, status>>
    /\ UNCHANGED <<n_models, n_checks, check_result, disable_filters, filter, splits,
                   source, k, beam_size, lp_alpha, output, dataset, loader_args,
                   loader, order, raw_hyps, hyps, n_beam_search, fs, out_file,
                   dump_split, last_dump, n_dumps>>

\* a mutant of SanityCheck: the outcome of the check is ignored
SanityCheckIgnored ==
    /\ pc = "load"
    /\ Len(ckpts) = n_models
    /\ n_checks' = n_checks + 1
    /\ check_result' = sanity_check(instances)
    /\ pc' = "filters"
    /\ UNCHANGED <<error, status, n_models, ckpts, instances, n_load_state,
                   disable_filters, filter, splits, source, k, beam_size, lp_alpha,
                   output, dataset, loader_args, loader, order, raw_hyps, hyps,
                   n_beam_search, fs, out_file, dump_split, last_dump, n_dumps>>

\* __init__: self.sanity_check(self.instances), after the loop
SanityCheck ==
    /\ pc = "load"
    /\ Len(ckpts) = n_models
    /\ n_checks' = n_checks + 1
    /\ check_result' = sanity_check(instances)
    /\ IF check_result' = "ok"
       THEN pc' = "filters" /\ UNCHANGED <<error, status>>
       ELSE Ends("raised", "AssertionError", 1)
    /\ UNCHANGED <<n_models, ckpts, instances, n_load_state, disable_filters, filter,
                   splits, source, k, beam_size, lp_alpha, output, dataset,
                   loader_args, loader, order, raw_hyps, hyps, n_beam_search, fs,
                   out_file, dump_split, last_dump, n_dumps>>

\* __init__: the post-processing filter is chosen from the first member's
\* eval_filters and disable_filters; self.instances[0] of an empty list
\* raises IndexError
SetupFilters ==
    /\ pc = "filters"
    /\ IF instances = <<>>
       THEN Ends("raised", "IndexError", 1) /\ UNCHANGED filter
       ELSE LET eval_filters == instances[1].eval_filters
            IN  /\ filter' = IF identity_filter(disable_filters, eval_filters)
                             THEN [t |-> "identity"]
                             ELSE [t |-> "chain", v |-> eval_filters]
                /\ pc' = "splits"
                /\ UNCHANGED <<status, error>>
    /\ UNCHANGED <<n_models, ckpts, instances, n_load_state, n_checks,
                   check_result, disable_filters, splits, source, k, beam_size,
                   lp_alpha, output, dataset, loader_args, loader, order, raw_hyps,
                   hyps, n_beam_search, fs, out_file, dump_split, last_dump, n_dumps>>

\* __init__: self.splits becomes the list of named splits, or ['new'] with the
\* parsed source stored in the first member's options, or stays as given
SetupSplits ==
    /\ pc = "splits"
    /\ IF Truthy(splits)
       THEN /\ splits' = List(StrSplit(splits.v, ","))
            /\ pc' = "ready"
            /\ UNCHANGED <<instances, error, status>>
       ELSE IF Truthy(source)
       THEN LET input_dict == ParseSource(source.v)
            IN  IF input_dict.t = "ValueError"
                THEN /\ Ends("raised", "ValueError", 1)
                     /\ UNCHANGED <<instances, splits>>
                ELSE /\ instances' = [instances EXCEPT ![1].new_set = input_dict]
                     /\ splits' = List(<<"new">>)
                     /\ pc' = "ready"
                     /\ UNCHANGED <<error, status>>
       ELSE /\ pc' = "ready"
            /\ UNCHANGED <<instances, splits, error, status>>
    /\ UNCHANGED <<n_models, ckpts, n_load_state, n_checks, check_result,
                   disable_filters, filter, source, k, beam_size, lp_alpha, output,
                   dataset, loader_args, loader, order, raw_hyps, hyps,
                   n_beam_search, fs, out_file, dump_split, last_dump, n_dumps>>

\* __call__: the loop over self.splits starts; None is not iterable
Call ==
    /\ pc = "ready"
    /\ IF splits.t = "None"
       THEN Ends("raised", "TypeError", 1) /\ UNCHANGED k
       ELSE pc' = "loop" /\ k' = 1 /\ UNCHANGED <<error, status>>
    /\ UNCHANGED <<n_models, ckpts, instances, n_load_state, n_checks, check_result,
                   disable_filters, filter, splits, source, beam_size, lp_alpha,
                   output, dataset, loader_args, loader, order, raw_hyps, hyps,
                   n_beam_search, fs, out_file, dump_split, last_dump, n_dumps>>

\* __call__: self.translate(self.instances, input_) for the k-th split.  The
\* split's data dictionary, its number of examples and the hypothesis decoded
\* for each example are inputs.
Translate ==
    /\ pc = "loop"
    /\ k <= Len(SplitItems)
    /\ \E data_dict \in DataDicts, n \in 0..MaxExamples :
         LET split == SplitItems[k]
             ds == MultiLabelMulti30kDataset(data_dict, n)
         IN  IF ~ds.ok
             THEN /\ n = 0
                  /\ Ends("raised", "KeyError", 1)
                  /\ UNCHANGED <<instances, dataset, loader_args, loader, order,
                                 raw_hyps, hyps, n_beam_search>>
             ELSE /\ instances' = load_data(instances, split)
                  /\ dataset' = ds
                  /\ loader_args' = IteratorArgs
                  /\ loader' = get_iterator(ds, loader_args'.drop_targets,
                                            loader_args'.inference)
                  /\ \E ord \in DataLoaderOrders(loader', n), h \in [1..n -> HypStrings] :
                       /\ order' = ord
                       /\ raw_hyps' = beam_search(h, ord)
                  /\ n_beam_search' = n_beam_search + 1
                  /\ hyps' = Filter(filter, raw_hyps')
                  /\ pc' = "dump"
                  /\ UNCHANGED <<error, status>>
    /\ UNCHANGED <<n_models, ckpts, n_load_state, n_checks, check_result,
                   disable_filters, filter, splits, source, k, beam_size, lp_alpha,
                   output, fs, out_file, dump_split, last_dump, n_dumps>>

\* __call__: self.dump(hyps, input_) for the k-th split, then the next split.
\* What translate held for the split is dropped with the loop's iteration.
Dump ==
    /\ pc = "dump"
    /\ LET split == SplitItems[k]
           path == OutputName(output, split, Suffix(lp_alpha, n_models, beam_size))
           old == IF path \in DOMAIN fs THEN fs[path] ELSE ""
       IN  /\ fs' = [p \in DOMAIN fs \cup {path} |->
                        IF p = path THEN WriteFile(old, hyps) ELSE fs[p]]
           /\ last_dump' = [p \in DOMAIN last_dump \cup {path} |->
                               IF p = path THEN hyps ELSE last_dump[p]]
           /\ out_file' = path
           /\ dump_split' = split
    /\ n_dumps' = n_dumps + 1
    /\ k' = k + 1
    /\ pc' = "loop"
    /\ dataset' = NoDataset
    /\ loader' = NoLoader
    /\ order' = <<>>
    /\ raw_hyps' = <<>>
    /\ hyps' = <<>>
    /\ UNCHANGED <<status, error, n_models, ckpts, instances, n_load_state, n_checks,
                   check_result, disable_filters, filter, splits, source, beam_size,
                   lp_alpha, output, loader_args, n_beam_search>>

\* __call__ returns after the last split
Return ==
    /\ pc = "loop"
    /\ k > Len(SplitItems)
    /\ Ends("done", "none", 0)
    /\ UNCHANGED <<n_models, ckpts, instances, n_load_state, n_checks, check_result,
                   disable_filters, filter, splits, source, k, beam_size, lp_alpha,
                   output, dataset, loader_args, loader, order, raw_hyps, hyps,
                   n_beam_search, fs, out_file, dump_split, last_dump, n_dumps>>

Next ==
    \/ LoadModel
    \/ SanityCheck
    \/ SetupFilters
    \/ SetupSplits
    \/ Call
    \/ Translate
    \/ Dump
    \/ Return

Spec == Init /\ [][Next]_vars

-----------------------------------------------------------------------------
(* Properties *)

\* the strings d.d of the tenths nearest to q / AlphaDenom
OneDecimal(q) ==
    {ToString(t \div 10) \o "." \o ToString(t % 10) :
        t \in {u \in 0..99 : /\ 2 * (10 * q - AlphaDenom * u) <= AlphaDenom
                             /\ 2 * (AlphaDenom * u - 10 * q) <= AlphaDenom}}

\* C1: the file dump writes to is named base, then '.' + split unless the
\* split is 'new', then '.lp_' + alpha with one decimal place when alpha > 0,
\* then '.ens' + N when N > 1, then '.beam' + K, in that order; the two names
\* the specification gives as examples come out as stated.
C1_DumpFileName ==
    n_dumps > 0 =>
        /\ \E a \in OneDecimal(lp_alpha) :
             out_file = output
                        \o (IF dump_split # "new" THEN "." \o dump_split ELSE "")
                        \o (IF lp_alpha > 0 THEN ".lp_" \o a ELSE "")
                        \o (IF n_models > 1 THEN ".ens" \o ToString(n_models) ELSE "")
                        \o ".beam" \o ToString(beam_size)
        /\ (/\ output = "out" /\ dump_split = "test" /\ n_models = 2
            /\ beam_size = 5 /\ lp_alpha = AlphaDenom)
           => out_file = "out.test.lp_1.0.ens2.beam5"
        /\ (/\ output = "out" /\ dump_split = "new" /\ n_models = 1
            /\ beam_size = 4 /\ lp_alpha = 0)
           => out_file = "out.beam4"

\* a dump of the "test" split by two members with beam 5 and alpha 1.0
C1_Witness ==
    /\ n_dumps > 0 /\ dump_split = "test" /\ n_models = 2
    /\ beam_size = 5 /\ lp_alpha = AlphaDenom
    /\ out_file = "out.test.lp_1.0.ens2.beam5"

VocabsDiffer ==
    \E i, j \in DOMAIN instances : instances[i].n_trg_vocab # instances[j].n_trg_vocab

ConfigsDiffer ==
    \E i, j \in DOMAIN instances : instances[i].eval_filters # instances[j].eval_filters

\* C2: sanity_check raises for every ensemble in which two members report
\* different target-vocabulary sizes, and raises nothing for a non-empty
\* ensemble whose members report the same size and the same filter
\* configuration.
C2_VocabCheck ==
    check_result # "none" =>
        /\ VocabsDiffer =>
             /\ check_result \in {"filters", "vocab"}
             /\ pc = "raised" /\ error = "AssertionError" /\ status # 0
        /\ (instances # <<>> /\ ~VocabsDiffer /\ ~ConfigsDiffer) =>
             /\ check_result = "ok"
             /\ error # "AssertionError"

\* two members with the same filters and different vocabulary sizes are rejected
C2_Witness ==
    /\ check_result = "vocab"
    /\ Len(instances) = 2
    /\ VocabsDiffer /\ ~ConfigsDiffer

\* the set of filter names a member declares
FilterSet(m) == Range(StrSplit(m.eval_filters, ","))

FilterSetsDiffer ==
    \E i, j \in DOMAIN instances : FilterSet(instances[i]) # FilterSet(instances[j])

\* C3 as stated: the filter assertion fails exactly when two members declare
\* different sets of filters, whatever the order they are listed in.
C3_OrderInsensitive ==
    check_result # "none" => (check_result = "filters" <=> FilterSetsDiffer)

\* C3 as amended: sanity_check compares the members' eval_filters values for
\* equality as declared: the filter assertion fails exactly when two members
\* declare different values, so two members that declare the same filters in
\* a different order are rejected.
C3_ExactEquality ==
    check_result # "none" =>
        /\ check_result = "filters" <=> ConfigsDiffer
        /\ check_result = "filters" => pc = "raised" /\ error = "AssertionError"

\* two members with the same filters in a different order are rejected
C3_Witness ==
    /\ check_result = "filters"
    /\ Len(instances) = 2
    /\ ~FilterSetsDiffer

\* the conditions C4 lists: a member without beam search, weights that do not
\* fit, a filter or vocabulary mismatch
Fatal == error \in {"CapabilityError", "WeightLoadError", "AssertionError"}

\* C4 as amended: the compatibility check never runs twice; it runs only when
\* every checkpoint has been loaded, and it has run exactly once in every
\* state past the loading loop, so before any beam_search call, which is made
\* only after the check passed; in a run that ends inside the loading loop it
\* has not run.  Once a fatal condition occurred no beam_search call and no
\* dump has been made, no file has changed, and the run has ended.
C4_CheckOnceBeforeDecoding ==
    /\ n_checks <= 1
    /\ n_checks = 1 =>
         /\ Len(ckpts) = n_models
         /\ Len(instances) = n_models
         /\ n_load_state = n_models
    /\ pc \in {"filters", "splits", "ready", "loop", "dump", "done"} =>
         n_checks = 1 /\ check_result = "ok"
    /\ (pc \in {"exit", "raised"} /\ Len(instances) < n_models) => n_checks = 0
    /\ n_beam_search > 0 => n_checks = 1 /\ check_result = "ok"
    /\ check_result \in {"filters", "vocab"} => Fatal
    /\ Fatal =>
         /\ n_beam_search = 0
         /\ n_dumps = 0
         /\ last_dump = <<>>
         /\ \A p \in DOMAIN fs : fs[p] = OldContent
         /\ pc \in {"exit", "raised"}
         /\ status # 0

\* C4 as stated: in every run the compatibility check executes exactly once
\* (so every run that has ended has executed it), after the loading and
\* before any decoding, and a fatal condition leaves nothing decoded or written.
C4_ExactlyOnceInEveryRun ==
    /\ pc \in {"done", "exit", "raised"} => n_checks = 1
    /\ C4_CheckOnceBeforeDecoding

\* a run of two loaded members that the check ended
C4_Witness ==
    /\ n_checks = 1
    /\ Len(instances) = 2
    /\ error = "AssertionError"

\* C5: checkpoints become members in list order, and as soon as a checkpoint
\* whose model does not support beam search has been read the process has
\* exited with a non-zero status: it is the last checkpoint read, its weights
\* were not loaded, it is not a member, and the compatibility check did not
\* run.
C5_ExitOnFirstUnsupported ==
    /\ \A i \in DOMAIN instances :
         /\ instances[i].ckpt = i
         /\ instances[i].n_trg_vocab = ckpts[i].n_trg_vocab
         /\ instances[i].eval_filters = ckpts[i].eval_filters
         /\ instances[i].supports_beam_search
    /\ \A j \in DOMAIN ckpts :
         ~ckpts[j].supports_beam_search =>
            /\ pc = "exit" /\ error = "CapabilityError" /\ status # 0
            /\ Len(ckpts) = j
            /\ Len(instances) = j - 1
            /\ n_load_state = j - 1
            /\ n_checks = 0
            /\ n_beam_search = 0 /\ n_dumps = 0
    /\ pc = "exit" => \E j \in DOMAIN ckpts : ~ckpts[j].supports_beam_search

\* the first of two checkpoints lacks beam search: the second is never read
C5_Witness ==
    /\ pc = "exit"
    /\ n_models = 2
    /\ Len(ckpts) = 1
    /\ instances = <<>>

\* C6: the filter is the identity exactly when disable_filters is set or the
\* ensemble declares no filters; then translate returns beam_search's list
\* unchanged, element for element; otherwise it returns the list with the
\* declared chain applied.
C6_IdentityFilter ==
    /\ filter.t # "unset" =>
         (filter.t = "identity" <=> (disable_filters \/ instances[1].eval_filters = ""))
    /\ pc = "dump" =>
         /\ Len(hyps) = Len(raw_hyps)
         /\ (disable_filters \/ \A i \in DOMAIN instances : instances[i].eval_filters = "")
              => \A e \in DOMAIN raw_hyps : hyps[e] = raw_hyps[e]
         /\ (~disable_filters /\ instances[1].eval_filters # "")
              => hyps = FilterChain(instances[1].eval_filters, raw_hyps)

\* filters are declared and disabled, and a hypothesis the chain would change
\* came back unchanged
C6_Witness ==
    /\ pc = "dump"
    /\ disable_filters
    /\ instances[1].eval_filters # ""
    /\ \E e \in DOMAIN raw_hyps :
         /\ hyps[e] = raw_hyps[e]
         /\ FilterChain(instances[1].eval_filters, raw_hyps)[e] # raw_hyps[e]

\* C7 as stated: once the ensemble is loaded and checked no member changes.
C7_NoMemberChanges ==
    [][check_result = "ok" => instances' = instances]_vars

\* what of a member the Translator never touches after loading
Loaded(m) ==
    <<m.ckpt, m.supports_beam_search, m.n_trg_vocab, m.eval_filters, m.weights,
      m.device, m.training>>

\* C7 as amended: once the ensemble is loaded and checked, no member other
\* than the first changes, and of the first member only its data changes
\* (the source mapping stored as its options' new_set, and the datasets of
\* the splits translated).
C7_OnlyFirstMembersData ==
    [][check_result = "ok" =>
         /\ Len(instances') = Len(instances)
         /\ \A i \in DOMAIN instances :
              /\ Loaded(instances'[i]) = Loaded(instances[i])
              /\ i > 1 => instances'[i] = instances[i]]_vars

\* a run of two members that translated from a source mapping
C7_Witness ==
    /\ pc = "done"
    /\ Len(instances) = 2
    /\ instances[1].new_set # None
    /\ instances[1].datasets = {"new"}
    /\ instances[2].datasets = {}

\* C8: with neither splits nor a source given to a valid ensemble, neither the
\* construction nor the call raises, nothing is decoded and nothing written.
C8_ZeroSplitsNoFailure ==
    (check_result = "ok" /\ ~Truthy(splits) /\ ~Truthy(source)) =>
        /\ error = "none"
        /\ pc # "raised"
        /\ n_beam_search = 0
        /\ n_dumps = 0

\* C9: translate asks for its iterator with targets dropped and inference
\* set; get_iterator with inference set does not shuffle, so the examples
\* come in the dataset's order, and with drop_targets set it collates the
\* dataset's source keys only, none of them a target key.
C9_InferenceIterator ==
    /\ n_beam_search > 0 => (loader_args.drop_targets /\ loader_args.inference)
    /\ pc = "dump" =>
         /\ ~loader.shuffle
         /\ order = [e \in 1..dataset.len |-> e]
         /\ loader.keys = dataset.src_datasets
         /\ loader.keys \cap (dataset.trg_datasets \cup TopologyTrgs) = {}
         /\ \A d \in BOOLEAN : ~get_iterator(dataset, d, TRUE).shuffle
         /\ \A i \in BOOLEAN :
              get_iterator(dataset, TRUE, i).keys \cap dataset.trg_datasets = {}

\* a split of two examples that has target data
C9_Witness ==
    /\ pc = "dump"
    /\ dataset.len = 2
    /\ dataset.trg_datasets # {}
    /\ raw_hyps[1] # raw_hyps[2]

\* the lines of a text file
ReadLines(c) ==
    IF c = "" THEN <<>>
    ELSE LET parts == StrSplit(c, "\n") IN SubSeq(parts, 1, Len(parts) - 1)

\* every line of the file ends with a newline
Terminated(c) == c = "" \/ Ch(c, Len(c)) = "\n"

\* C10: the file at every path dumped to holds the hypotheses of the last
\* dump made to that path, one per newline-terminated line, in order, and
\* nothing else; files not dumped to are as they were.
C10_FileHoldsLastDump ==
    /\ \A p \in DOMAIN last_dump :
         /\ p \in DOMAIN fs
         /\ Terminated(fs[p])
         /\ ReadLines(fs[p]) = last_dump[p]
    /\ \A p \in DOMAIN fs \ DOMAIN last_dump : fs[p] = OldContent

\* two dumps to the path that held a longer file, the last of one hypothesis
C10_Witness ==
    /\ n_dumps = 2
    /\ DOMAIN last_dump = {out_file}
    /\ DOMAIN fs = {out_file}
    /\ Len(last_dump[out_file]) = 1

====
